---- MODULE Spec2Model ----
(***************************************************************************)
(* Model of the conversational booking endpoint POST /bot/update           *)
(* (src/main.py, bot_update) over the two collections it touches,          *)
(* "botsession" and "appointment".  FastAPI runs a plain `def` endpoint in *)
(* a thread pool, so several bot_update handlers run concurrently and      *)
(* interleave at every store call.                                         *)
(***************************************************************************)
EXTENDS Integers, Sequences, FiniteSets, TLC

\* ---------------------------------------------------------------- bounds
\* calls accepted in one behaviour: a dialogue takes six, one more overlaps it
MaxCalls == 7
\* documents the "appointment" collection holds at most
MaxAppointments == 2
\* documents each of "tattooservice" and "portfolioitem" holds at most
MaxCatalog == 2

\* Telegram user ids, and the worker threads that run bot_update
Users == {1, 2}
Handlers == {1, 2}

\* user_id: Optional[int] = None
NoUser == 0

\* ---------------------------------------------------------------- texts
\* A text is a sequence of one-character strings.
Whitespace == {" "}

\* message_text: Optional[str] = None
NoText == [present |-> FALSE, chars |-> <<>>]
Text(s) == [present |-> TRUE, chars |-> s]

MessageTexts ==
    {NoText, Text(<<>>), Text(<<" ">>), Text(<<"a">>), Text(<<" ", "a", " ">>)}

RECURSIVE lstrip(_)
lstrip(s) ==
    IF s # <<>> /\ Head(s) \in Whitespace THEN lstrip(Tail(s)) ELSE s

RECURSIVE rstrip(_)
rstrip(s) ==
    IF s # <<>> /\ s[Len(s)] \in Whitespace
    THEN rstrip(SubSeq(s, 1, Len(s) - 1))
    ELSE s

\* str.strip()
strip(s) == rstrip(lstrip(s))

\* text_of without the .strip() of line 147
text_of_NoStrip(m) == IF m.present THEN m.chars ELSE <<>>

\* (update.message_text or "").strip()
text_of(m) == strip(IF m.present /\ m.chars # <<>> THEN m.chars ELSE <<>>)

\* ---------------------------------------------------------------- state tags
StateOrder ==
    <<"ask_name", "ask_phone", "ask_date", "ask_time", "ask_note", "complete">>

StateTags == {StateOrder[i] : i \in 1..Len(StateOrder)}

Rank(s) == CHOOSE i \in 1..Len(StateOrder) : StateOrder[i] = s

\* ---------------------------------------------------------------- documents
\* A dict is a function whose domain is the set of keys present.
EmptyDict == [k \in {} |-> <<>>]

\* d[k] = v
SetKey(d, k, v) == [x \in (DOMAIN d) \cup {k} |-> IF x = k THEN v ELSE d[x]]

Has(d, k) == k \in DOMAIN d

VARIABLES
    dbConfigured,   \* db is not None
    botsession,     \* collection "botsession", in natural (insertion) order
    appointment,    \* collection "appointment", in natural (insertion) order
    pc,             \* position of each handler in bot_update
    user_id,        \* each handler's update.user_id
    text,           \* each handler's local `text`
    session,        \* each handler's local `session` (the document it read)
    app_id,         \* each handler's local `app_id`
    calls,          \* number of calls accepted so far
    resp,           \* the outcome of the call that finished last
    tattooservice,  \* collection "tattooservice", in natural (insertion) order
    portfolioitem,  \* collection "portfolioitem", in natural (insertion) order
    catalogResp     \* the outcome of the last catalog or admin request

vars ==
    <<dbConfigured, botsession, appointment, pc, user_id, text, session, app_id,
      calls, resp, tattooservice, portfolioitem, catalogResp>>

store == <<botsession, appointment>>

catalog == <<tattooservice, portfolioitem, catalogResp>>

bot == <<pc, user_id, text, session, app_id, resp>>

config == <<dbConfigured, calls, catalog>>

\* ---------------------------------------------------------------- store
NoSession == [_id |-> 0, state |-> "none", data |-> EmptyDict]

\* user_id and read are not part of the HTTP response: they record whose call it
\* was and the session state that call had read ("none": no session read)
NoResp ==
    [user_id |-> NoUser, read |-> "none", status |-> 0, reply |-> "none",
     state |-> "none", app_id |-> 0]

\* return {"reply": reply, "state": state}
Ok(reply, state) == [NoResp EXCEPT !.status = 200, !.reply = reply, !.state = state]

\* raise HTTPException(status_code=code), or an exception leaving the handler
HttpError(code) == [NoResp EXCEPT !.status = code, !.reply = "error"]

\* find_one with the filter on telegram_user_id left out
find_one_by_user_Any(coll, u) ==
    IF coll = <<>> THEN NoSession
    ELSE [_id |-> 1, state |-> coll[1].state, data |-> coll[1].data]

\* db["botsession"].find_one({"telegram_user_id": user_id})
find_one_by_user(coll, u) ==
    LET hits == {i \in 1..Len(coll) : coll[i].telegram_user_id = u}
    IN  IF hits = {} THEN NoSession
        ELSE LET i == CHOOSE j \in hits : \A k \in hits : j <= k
             IN  [_id |-> i, state |-> coll[i].state, data |-> coll[i].data]

\* db["botsession"].find_one({"_id": ObjectId(session_id)})
find_one_by_id(coll, id) ==
    IF id \in 1..Len(coll)
    THEN [_id |-> id, state |-> coll[id].state, data |-> coll[id].data]
    ELSE NoSession

\* create_document(collection, doc): insert-one, the new id is returned
create_document(coll, doc) == Append(coll, doc)

\* update_one({"_id": id}, {"$set": patch}): the fields of patch replace the
\* document's fields of the same name, the others are kept
update_one(coll, id, patch) ==
    [coll EXCEPT ![id] =
        [f \in DOMAIN coll[id] |-> IF f \in DOMAIN patch THEN patch[f] ELSE coll[id][f]]]

\* ---------------------------------------------------------------- handler
Init ==
    /\ dbConfigured \in BOOLEAN
    /\ botsession = <<>>
    /\ appointment = <<>>
    /\ pc = [h \in Handlers |-> "idle"]
    /\ user_id = [h \in Handlers |-> NoUser]
    /\ text = [h \in Handlers |-> <<>>]
    /\ session = [h \in Handlers |-> NoSession]
    /\ app_id = [h \in Handlers |-> 0]
    /\ calls = 0
    /\ resp = NoResp
    /\ tattooservice = <<>>
    /\ portfolioitem = <<>>
    /\ catalogResp = [op |-> "none", status |-> 0, items |-> <<>>]

\* The handler returns or raises: its locals die, the outcome is kept.
Finish(h, r) ==
    /\ pc' = [pc EXCEPT ![h] = "idle"]
    /\ user_id' = [user_id EXCEPT ![h] = NoUser]
    /\ text' = [text EXCEPT ![h] = <<>>]
    /\ session' = [session EXCEPT ![h] = NoSession]
    /\ app_id' = [app_id EXCEPT ![h] = 0]
    /\ resp' = [r EXCEPT !.user_id = user_id[h], !.read = session[h].state]

\* lines 126-127
RejectNoDb(h, u) ==
    /\ pc[h] = "idle"
    /\ ~dbConfigured
    /\ resp' = [HttpError(500) EXCEPT !.user_id = u]
    /\ UNCHANGED <<config, store, pc, user_id, text, session, app_id>>

\* bot_update without the user_id check of lines 130-131
RejectNoUser_Unchecked(h) ==
    /\ pc[h] = "idle"
    /\ dbConfigured
    /\ Len(botsession) < MaxCalls
    /\ botsession' =
          Append(botsession, [telegram_user_id |-> NoUser, state |-> "ask_name", data |-> EmptyDict])
    /\ Finish(h, Ok("greeting", "ask_name"))
    /\ UNCHANGED <<config, appointment>>

\* lines 129-131
RejectNoUser(h) ==
    /\ pc[h] = "idle"
    /\ dbConfigured
    /\ Finish(h, HttpError(400))
    /\ UNCHANGED <<config, store>>

\* line 134, then lines 145-147 when a session was found
FindSession(h, u, m) ==
    /\ pc[h] = "idle"
    /\ dbConfigured
    /\ calls < MaxCalls
    /\ LET s == find_one_by_user(botsession, u)
       IN  /\ session' = [session EXCEPT ![h] = s]
           /\ pc' = [pc EXCEPT ![h] = IF s = NoSession THEN "create" ELSE "dispatch"]
    /\ user_id' = [user_id EXCEPT ![h] = u]
    /\ text' = [text EXCEPT ![h] = text_of(m)]
    /\ calls' = calls + 1
    /\ UNCHANGED <<dbConfigured, catalog, store, app_id, resp>>

\* lines 136-140
NewSession(u) == [telegram_user_id |-> u, state |-> "ask_name", data |-> EmptyDict]

CreateSession(h) ==
    /\ pc[h] = "create"
    /\ botsession' = create_document(botsession, NewSession(user_id[h]))
    /\ session' = [session EXCEPT ![h] = [NoSession EXCEPT !._id = Len(botsession')]]
    /\ pc' = [pc EXCEPT ![h] = "greet"]
    /\ UNCHANGED <<config, appointment, user_id, text, app_id, resp>>

\* lines 141-143
Greet(h) ==
    /\ pc[h] = "greet"
    /\ LET s == find_one_by_id(botsession, session[h]._id)
       IN  Finish(h, Ok("greeting", s.state))
    /\ UNCHANGED <<config, store>>

\* the local `state` and `data` of lines 145-146
state(h) == session[h].state

data(h) == session[h].data

\* lines 150-151
Reprompt(h) ==
    /\ pc[h] = "dispatch"
    /\ state(h) = "ask_name"
    /\ text[h] = <<>>
    /\ Finish(h, Ok("reprompt", state(h)))
    /\ UNCHANGED <<config, store>>

\* data[key] = text; update_one({"_id": session["_id"]},
\*     {"$set": {"state": next, "data": data}}); return {..., "state": next}
Advance(h, key, next, reply) ==
    /\ botsession' = update_one(botsession, session[h]._id,
                         [state |-> next, data |-> SetKey(data(h), key, text[h])])
    /\ Finish(h, Ok(reply, next))
    /\ UNCHANGED <<config, appointment>>

\* AskName without the `if not text` guard of line 150
AskName_NoCheck(h) ==
    /\ pc[h] = "dispatch"
    /\ state(h) = "ask_name"
    /\ Advance(h, "client_name", "ask_phone", "prompt_phone")

\* lines 149, 152-154
AskName(h) ==
    /\ pc[h] = "dispatch"
    /\ state(h) = "ask_name"
    /\ text[h] # <<>>
    /\ Advance(h, "client_name", "ask_phone", "prompt_phone")

\* lines 156-159
AskPhone(h) ==
    /\ pc[h] = "dispatch"
    /\ state(h) = "ask_phone"
    /\ Advance(h, "phone", "ask_date", "prompt_date")

\* AskDate that moves on to ask_note, skipping ask_time
AskDate_Skip(h) ==
    /\ pc[h] = "dispatch"
    /\ state(h) = "ask_date"
    /\ Advance(h, "preferred_date", "ask_note", "prompt_note")

\* lines 161-164
AskDate(h) ==
    /\ pc[h] = "dispatch"
    /\ state(h) = "ask_date"
    /\ Advance(h, "preferred_date", "ask_time", "prompt_time")

\* lines 166-169
AskTime(h) ==
    /\ pc[h] = "dispatch"
    /\ state(h) = "ask_time"
    /\ Advance(h, "preferred_time", "ask_note", "prompt_note")

\* lines 172-174: the booking document handed to create_document
BookingDoc(h) ==
    SetKey(SetKey(SetKey(data(h), "note", text[h]), "source", "bot"),
           "telegram_user_id", user_id[h])

\* lines 171-175
AskNote(h) ==
    /\ pc[h] = "dispatch"
    /\ state(h) = "ask_note"
    /\ Len(appointment) < MaxAppointments
    /\ appointment' = create_document(appointment, BookingDoc(h))
    /\ app_id' = [app_id EXCEPT ![h] = Len(appointment')]
    /\ pc' = [pc EXCEPT ![h] = "complete"]
    /\ UNCHANGED <<config, botsession, user_id, text, session, resp>>

\* lines 176-177
Complete(h) ==
    /\ pc[h] = "complete"
    /\ botsession' = update_one(botsession, session[h]._id, [state |-> "complete"])
    /\ Finish(h, [Ok("done", "complete") EXCEPT !.app_id = app_id[h]])
    /\ UNCHANGED <<config, appointment>>

\* StartOver that restarts the dialogue of a finished session
StartOver_Restart(h) ==
    /\ pc[h] = "dispatch"
    /\ state(h) \notin {"ask_name", "ask_phone", "ask_date", "ask_time", "ask_note"}
    /\ botsession' = update_one(botsession, session[h]._id, [state |-> "ask_name"])
    /\ Finish(h, Ok("start_over", "ask_name"))
    /\ UNCHANGED <<config, appointment>>

\* line 179
StartOver(h) ==
    /\ pc[h] = "dispatch"
    /\ state(h) \notin {"ask_name", "ask_phone", "ask_date", "ask_time", "ask_note"}
    /\ Finish(h, Ok("start_over", "ask_name"))
    /\ UNCHANGED <<config, store>>

\* A store write (lines 136, 153, 158, 163, 168, 175, 176) raises: nothing is
\* written and the exception leaves bot_update.
WritePending(h) ==
    \/ pc[h] \in {"create", "complete"}
    \/ pc[h] = "dispatch" /\ state(h) \in {"ask_phone", "ask_date", "ask_time", "ask_note"}
    \/ pc[h] = "dispatch" /\ state(h) = "ask_name" /\ text[h] # <<>>

\* WriteFails with the booking write's exception swallowed at ask_note
WriteFails_Swallow(h) ==
    /\ WritePending(h)
    /\ IF pc[h] = "dispatch" /\ state(h) = "ask_note"
       THEN /\ botsession' = update_one(botsession, session[h]._id, [state |-> "complete"])
            /\ Finish(h, Ok("done", "complete"))
            /\ UNCHANGED <<config, appointment>>
       ELSE /\ Finish(h, HttpError(500))
            /\ UNCHANGED <<config, store>>

WriteFails(h) ==
    /\ WritePending(h)
    /\ Finish(h, HttpError(500))
    /\ UNCHANGED <<config, store>>

Next ==
    \E h \in Handlers :
        \/ \E u \in Users \cup {NoUser} : RejectNoDb(h, u)
        \/ RejectNoUser(h)
        \/ \E u \in Users, m \in MessageTexts : FindSession(h, u, m)
        \/ CreateSession(h)
        \/ Greet(h)
        \/ Reprompt(h)
        \/ AskName(h)
        \/ AskPhone(h)
        \/ AskDate(h)
        \/ AskTime(h)
        \/ AskNote(h)
        \/ Complete(h)
        \/ StartOver(h)
        \/ WriteFails(h)

Spec == Init /\ [][Next]_vars

\* ---------------------------------------------------------------- one user, one call at a time
\* The messages of a single user, each handled to its end before the next is
\* received, with a configured store whose writes succeed: `calls` then counts
\* that user's messages.
SeqInit == Init /\ dbConfigured

SeqReceive(h, u, m) ==
    /\ \A g \in Handlers : pc[g] = "idle"
    /\ \A i \in 1..Len(botsession) : botsession[i].telegram_user_id = u
    /\ FindSession(h, u, m)

SeqNext ==
    \E h \in Handlers :
        \/ \E u \in Users, m \in MessageTexts : SeqReceive(h, u, m)
        \/ CreateSession(h)
        \/ Greet(h)
        \/ Reprompt(h)
        \/ AskName(h)
        \/ AskPhone(h)
        \/ AskDate(h)
        \/ AskTime(h)
        \/ AskNote(h)
        \/ Complete(h)
        \/ StartOver(h)

\* the user goes on sending and every received call runs to its end
SpecSeq == SeqInit /\ [][SeqNext]_vars /\ WF_vars(SeqNext)

\* ---------------------------------------------------------------- catalog
\* os.getenv("ADMIN_PASSWORD", "admin123")
get_admin_secret == "admin123"

Passwords == {"admin123", "wrong"}

\* TattooService and PortfolioItem payloads: the required title and the flag;
\* the Optional fields, never read by the endpoints, are left out
ServicePayloads == [title : {"s1", "s2"}, is_active : BOOLEAN]

PortfolioPayloads == [title : {"p1", "p2"}, featured : BOOLEAN]

\* str(ObjectId)
StrOfId(id) == <<"oid", id>>

\* get_documents(collection, filter): the documents the filter matches, in
\* natural order, each with its "_id"
get_documents(coll, filter) ==
    LET Matches(doc) == \A k \in DOMAIN filter : Has(doc, k) /\ doc[k] = filter[k]
    IN  SelectSeq([i \in 1..Len(coll) |->
                      [k \in DOMAIN coll[i] \cup {"_id"} |->
                          IF k = "_id" THEN i ELSE coll[i][k]]],
                  Matches)

\* it["id"] = str(it.pop("_id")), for every item
WithId(items) ==
    [n \in 1..Len(items) |->
        [k \in (DOMAIN items[n] \ {"_id"}) \cup {"id"} |->
            IF k = "id" THEN StrOfId(items[n]["_id"]) ELSE items[n][k]]]

CatalogOk(op, items) == [op |-> op, status |-> 200, items |-> items]

\* list_services with the filter {} instead of {"is_active": True}
list_services_All ==
    /\ catalogResp' = CatalogOk("list_services", WithId(get_documents(tattooservice, EmptyDict)))
    /\ UNCHANGED <<dbConfigured, calls, tattooservice, portfolioitem, store, bot>>

list_services ==
    /\ catalogResp' = CatalogOk("list_services", WithId(get_documents(tattooservice, [is_active |-> TRUE])))
    /\ UNCHANGED <<dbConfigured, calls, tattooservice, portfolioitem, store, bot>>

list_portfolio ==
    /\ catalogResp' = CatalogOk("list_portfolio", WithId(get_documents(portfolioitem, EmptyDict)))
    /\ UNCHANGED <<dbConfigured, calls, tattooservice, portfolioitem, store, bot>>

\* require_admin raises 401
Unauthorized(op, password) ==
    /\ password # get_admin_secret
    /\ catalogResp' = [op |-> op, status |-> 401, items |-> <<>>]
    /\ UNCHANGED <<dbConfigured, calls, tattooservice, portfolioitem, store, bot>>

admin_add_service(payload, password) ==
    \/ Unauthorized("admin_add_service", password)
    \/ /\ password = get_admin_secret
       /\ Len(tattooservice) < MaxCatalog
       /\ tattooservice' = create_document(tattooservice, payload)
       /\ catalogResp' = CatalogOk("admin_add_service", <<StrOfId(Len(tattooservice'))>>)
       /\ UNCHANGED <<dbConfigured, calls, portfolioitem, store, bot>>

admin_add_portfolio(payload, password) ==
    \/ Unauthorized("admin_add_portfolio", password)
    \/ /\ password = get_admin_secret
       /\ Len(portfolioitem) < MaxCatalog
       /\ portfolioitem' = create_document(portfolioitem, payload)
       /\ catalogResp' = CatalogOk("admin_add_portfolio", <<StrOfId(Len(portfolioitem'))>>)
       /\ UNCHANGED <<dbConfigured, calls, tattooservice, store, bot>>

CatalogInit == Init /\ dbConfigured

CatalogNext ==
    \/ list_services
    \/ list_portfolio
    \/ \E p \in ServicePayloads, pw \in Passwords : admin_add_service(p, pw)
    \/ \E p \in PortfolioPayloads, pw \in Passwords : admin_add_portfolio(p, pw)

SpecCatalog == CatalogInit /\ [][CatalogNext]_vars

\* ---------------------------------------------------------------- properties
\* the indexes of u's documents in a collection
SessionsOf(u) == {i \in 1..Len(botsession) : botsession[i].telegram_user_id = u}

BookingsOf(u) ==
    {i \in 1..Len(appointment) :
        /\ appointment[i].telegram_user_id = u
        /\ appointment[i].source = "bot"}

\* handler h takes a step that ends its call with a reply
Returns(h) == pc[h] # "idle" /\ pc'[h] = "idle" /\ resp'.status = 200

\* handler h takes a step that ends its call with an exception
Raises(h) == pc[h] # "idle" /\ pc'[h] = "idle" /\ resp'.status = 500

IsBlank(s) == \A i \in 1..Len(s) : s[i] \in Whitespace

AnswerKeys == <<"client_name", "phone", "preferred_date", "preferred_time", "note">>

\* C1: for every user id at most one bot-sourced booking ever exists, under
\* any interleaving of bot_update handlers.
C1_AtMostOneBotBooking ==
    \A u \in Users : Cardinality(BookingsOf(u)) <= 1

\* C2: the step that handles a message in state ask_note inserts exactly one
\* booking with source "bot", status "new", the caller's user id and the five
\* answers, and the call that returns the confirmation leaves the session in
\* state complete.
C2_BookingRecord ==
    [][\A h \in Handlers :
        /\ (pc[h] = "dispatch" /\ state(h) = "ask_note" /\ pc'[h] = "complete") =>
              /\ Len(appointment') = Len(appointment) + 1
              /\ LET d == appointment'[Len(appointment')]
                 IN  /\ \A i \in 1..Len(AnswerKeys) : Has(d, AnswerKeys[i])
                     /\ \A k \in DOMAIN data(h) : d[k] = data(h)[k]
                     /\ d.note = text[h]
                     /\ d.source = "bot"
                     /\ d.telegram_user_id = user_id[h]
                     /\ Has(d, "status") /\ d.status = "new"
        /\ (pc[h] = "complete" /\ Returns(h)) =>
              /\ appointment' = appointment
              /\ botsession'[session[h]._id].state = "complete"]_vars

\* C3: every session write of a handler observes the result of the write
\* before it: the document it overwrites is still the document it read.
C3_WritesSeeLatest ==
    [][\A h \in Handlers :
        (pc[h] \in {"dispatch", "complete"} /\ botsession' # botsession /\ pc'[h] = "idle") =>
            /\ botsession[session[h]._id].state = session[h].state
            /\ botsession[session[h]._id].data = session[h].data]_vars

\* C4: at most one session document per user id in every reachable state.
C4_OneSessionPerUser ==
    \A u \in Users : Cardinality(SessionsOf(u)) <= 1

\* C5: the first call of a user without a session creates exactly one session
\* (ask_name, empty answers) and no booking, writes nothing else, and returns
\* the greeting with state ask_name.
C5_FirstCallGreets ==
    [][\A h \in Handlers :
        /\ (pc[h] = "create" /\ pc'[h] = "greet") =>
              /\ botsession' = Append(botsession, NewSession(user_id[h]))
              /\ appointment' = appointment
        /\ (pc[h] = "greet" /\ pc'[h] = "idle") =>
              /\ store' = store
              /\ resp'.status = 200
              /\ resp'.reply = "greeting"
              /\ resp'.state = "ask_name"
              /\ botsession[session[h]._id].state = "ask_name"
              /\ botsession[session[h]._id].data = EmptyDict]_vars

\* C6: a handler that read state ask_name: with blank text (empty after
\* trimming) it writes nothing and returns the reprompt with state ask_name;
\* otherwise its write sets the session's state to ask_phone and client_name to
\* the trimmed text, which is not blank.  A message trims to the empty text
\* exactly when it is absent, empty or whitespace-only.
C6_AskNameStep ==
    /\ [](\A m \in MessageTexts :
            (text_of(m) = <<>>) <=> (~m.present \/ IsBlank(m.chars)))
    /\ [][\A h \in Handlers :
            (pc[h] = "dispatch" /\ state(h) = "ask_name" /\ Returns(h)) =>
                IF IsBlank(text[h])
                THEN /\ store' = store
                     /\ resp'.reply = "reprompt"
                     /\ resp'.state = "ask_name"
                ELSE /\ appointment' = appointment
                     /\ botsession'[session[h]._id].state = "ask_phone"
                     /\ botsession'[session[h]._id].data =
                            SetKey(data(h), "client_name", text[h])
                     /\ resp'.state = "ask_phone"]_vars

C6_Witness ==
    /\ resp.status = 200
    /\ resp.read = "ask_name"
    /\ resp.reply = "reprompt"
    /\ \E i \in SessionsOf(resp.user_id) :
          botsession[i].state = "ask_name" /\ botsession[i].data = EmptyDict
    /\ \E u \in Users \ {resp.user_id} : \E i \in SessionsOf(u) :
          /\ botsession[i].state = "ask_phone"
          /\ botsession[i].data = SetKey(EmptyDict, "client_name", <<"a">>)

\* C7: a call that read ask_phone, ask_date, ask_time or ask_note and returns
\* leaves the session in the next state with the text stored in the session's
\* answers under the step's key, next to the keys that were there.
KeyOf(s) == AnswerKeys[Rank(s)]

C7_StoresAnswer ==
    [][\A h \in Handlers :
        (/\ pc[h] \in {"dispatch", "complete"}
         /\ state(h) \in {"ask_phone", "ask_date", "ask_time", "ask_note"}
         /\ Returns(h)) =>
            LET doc == botsession'[session[h]._id]
            IN  /\ doc.state = StateOrder[Rank(state(h)) + 1]
                /\ Has(doc.data, KeyOf(state(h)))
                /\ doc.data[KeyOf(state(h))] = text[h]
                /\ \A k \in DOMAIN data(h) : Has(doc.data, k)]_vars

\* C8: a call that found the user's session in state complete writes nothing:
\* no booking is created and no session changes.
C8_CompleteIsTerminal ==
    [][\A h \in Handlers :
        (pc[h] = "dispatch" /\ state(h) = "complete" /\ pc'[h] # pc[h]) =>
            /\ store' = store
            /\ resp'.status = 200]_vars

C8_Witness ==
    /\ resp.status = 200
    /\ resp.read = "complete"
    /\ resp.reply = "start_over"
    /\ \E i \in SessionsOf(resp.user_id) : botsession[i].state = "complete"
    /\ Cardinality(BookingsOf(resp.user_id)) = 1

\* C9: a call whose store write fails ends with the exception and has written
\* nothing in that step; and no session is ever in state complete without a
\* booking of its user having been written.
C9_NoAdvanceOnFailedWrite ==
    /\ [](\A i \in 1..Len(botsession) :
            botsession[i].state = "complete" =>
                BookingsOf(botsession[i].telegram_user_id) # {})
    /\ [][\A h \in Handlers :
            /\ Raises(h) => store' = store
            /\ (pc[h] = "dispatch" /\ state(h) = "ask_note" /\ pc'[h] = "idle") =>
                  Raises(h) /\ app_id[h] = 0]_vars

C9_Witness ==
    /\ resp.status = 500
    /\ resp.read = "ask_note"
    /\ BookingsOf(resp.user_id) = {}
    /\ \E i \in SessionsOf(resp.user_id) : botsession[i].state = "ask_note"
    /\ \A h \in Handlers : pc[h] = "idle"

\* C10: a session's persisted state is always one of the six tags, and a step
\* leaves it as it is or moves it to its immediate successor.
C10_LinearOrder ==
    /\ [](\A i \in 1..Len(botsession) : botsession[i].state \in StateTags)
    /\ [][\A i \in 1..Len(botsession) :
            \/ botsession'[i].state = botsession[i].state
            \/ Rank(botsession'[i].state) = Rank(botsession[i].state) + 1]_vars

\* the user whose call handler h is handling in this step
Caller(h) == IF pc[h] = "idle" THEN user_id'[h] ELSE user_id[h]

\* C11: a step of a handler working for user A leaves every session and every
\* booking of every other user B as it was, and adds none for B.
C11_OtherUsersUntouched ==
    [][\A h \in Handlers : pc'[h] # pc[h] =>
        \A b \in Users \ {Caller(h)} :
            /\ \A i \in 1..Len(botsession) :
                  botsession[i].telegram_user_id = b => botsession'[i] = botsession[i]
            /\ \A i \in 1..Len(appointment) :
                  appointment[i].telegram_user_id = b => appointment'[i] = appointment[i]
            /\ \A i \in (Len(botsession) + 1)..Len(botsession') :
                  botsession'[i].telegram_user_id # b
            /\ \A i \in (Len(appointment) + 1)..Len(appointment') :
                  appointment'[i].telegram_user_id # b]_vars

C11_Witness ==
    \E a \in Users, b \in Users, h \in Handlers :
        /\ a # b
        /\ pc[h] = "dispatch" /\ user_id[h] = a
        /\ resp.user_id = b /\ resp.reply = "prompt_phone"
        /\ \E i \in SessionsOf(a) : botsession[i].state = "ask_date"
        /\ \E i \in SessionsOf(b) : botsession[i].state = "ask_phone"

\* C12: a key present in a session's persisted answers stays present with the
\* same value in every later state.
C12_AnswersNeverReset ==
    [][\A i \in 1..Len(botsession) : \A k \in DOMAIN botsession[i].data :
        /\ Has(botsession'[i].data, k)
        /\ botsession'[i].data[k] = botsession[i].data[k]]_vars

\* C13: every booking has a client_name that is not blank, and so has every
\* session that has left ask_name.
C13_ClientNamePresent ==
    /\ \A i \in 1..Len(appointment) :
          /\ Has(appointment[i], "client_name")
          /\ ~IsBlank(appointment[i].client_name)
    /\ \A i \in 1..Len(botsession) :
          botsession[i].state # "ask_name" =>
              /\ Has(botsession[i].data, "client_name")
              /\ ~IsBlank(botsession[i].data.client_name)

\* two bookings of one user, written by overlapping handlers or after a failed
\* session update
C13_Witness ==
    /\ Len(appointment) = 2
    /\ appointment[1].telegram_user_id = appointment[2].telegram_user_id
    /\ appointment[1].client_name = <<"a">>
    /\ appointment[1].note # appointment[2].note

\* a step that rejects a request before any handler position is taken
Rejects == pc' = pc /\ resp' # resp

\* C14 as stated: every request without a user_id is answered with HTTP 400.
C14_NoUserIs400 ==
    (resp.status # 0 /\ resp.user_id = NoUser) => resp.status = 400

\* C14 as amended: while the store is not configured every request, with or
\* without user_id, is answered with 500 and the store stays empty; while it is
\* configured a request without user_id is answered with 400; a rejected
\* request changes no session and no booking.
C14_Rejections ==
    /\ [](~dbConfigured => store = <<<<>>, <<>>>> /\ resp.status \in {0, 500})
    /\ []((dbConfigured /\ resp.status # 0 /\ resp.user_id = NoUser) => resp.status = 400)
    /\ [](resp.status = 400 => resp.user_id = NoUser)
    /\ [][Rejects =>
            /\ store' = store
            /\ resp'.status = IF dbConfigured THEN 400 ELSE 500]_vars

C14_Witness ==
    /\ resp.status = 400
    /\ resp.user_id = NoUser
    /\ \E u \in Users : \E i \in SessionsOf(u) : botsession[i].state = "ask_phone"
    /\ \E h \in Handlers : pc[h] = "dispatch"

\* C15, its stated instance: a call that found the session in state complete
\* and returns a reply returns the state tag complete, the session's persisted
\* state.
C15_CompleteAnsweredComplete ==
    (resp.status = 200 /\ resp.read = "complete") => resp.state = "complete"

\* no handler is working on a call of user u
Quiet(u) == \A h \in Handlers : pc[h] # "idle" => user_id[h] # u

\* C17: whenever no call of user U is in progress, a bot-sourced booking of U
\* exists if and only if a session of U is in state complete.
C17_BookingIffComplete ==
    \A u \in Users : Quiet(u) =>
        ((BookingsOf(u) # {}) <=> (\E i \in SessionsOf(u) : botsession[i].state = "complete"))

\* C18: a session's persisted answers hold the key of every step its state
\* has passed.
C18_AnswersCoverState ==
    \A i \in 1..Len(botsession) : \A r \in 1..4 :
        Rank(botsession[i].state) > r => Has(botsession[i].data, AnswerKeys[r])

\* C16: a listing changes no stored document; a services listing returns
\* exactly the services whose is_active flag is true and a portfolio listing
\* every portfolio item, each once, in natural order; and a listing that
\* follows a listing of the same collection returns the same result.
ListingOps == {"list_services", "list_portfolio"}

Listed(coll, ids) ==
    /\ Len(catalogResp.items) = Cardinality(ids)
    /\ \A n \in 1..Len(catalogResp.items) :
          LET it == catalogResp.items[n]
          IN  /\ it.id[2] \in ids
              /\ \A k \in DOMAIN coll[it.id[2]] : it[k] = coll[it.id[2]][k]
              /\ \A m \in 1..(n - 1) : catalogResp.items[m].id[2] < it.id[2]

C16_ListingsRead ==
    /\ [](catalogResp.op = "list_services" =>
            Listed(tattooservice,
                   {i \in 1..Len(tattooservice) : tattooservice[i].is_active}))
    /\ [](catalogResp.op = "list_portfolio" =>
            Listed(portfolioitem, 1..Len(portfolioitem)))
    /\ [][catalogResp'.op \in ListingOps =>
            /\ tattooservice' = tattooservice
            /\ portfolioitem' = portfolioitem
            /\ store' = store
            /\ (catalogResp.op = catalogResp'.op => catalogResp' = catalogResp)]_vars

C16_Witness ==
    /\ catalogResp.op = "list_services"
    /\ Len(tattooservice) = 2
    /\ ~tattooservice[1].is_active
    /\ tattooservice[2].is_active
    /\ Len(catalogResp.items) = 1
    /\ catalogResp.items[1].title = tattooservice[2].title
    /\ portfolioitem # <<>>

\* C19: with one user's messages handled one at a time and no storage
\* failure: every call returns a reply; no session is complete before six
\* messages; when the second message was accepted as the name, the call that
\* completes the booking is the sixth; and unless a blank message is
\* reprompted at ask_name, the session eventually is complete.
Completed == \E i \in 1..Len(botsession) : botsession[i].state = "complete"

AllIdle == \A h \in Handlers : pc[h] = "idle"

SecondAccepted ==
    calls = 2 /\ AllIdle /\ \E i \in 1..Len(botsession) : botsession[i].state = "ask_phone"

JustCompleted == AllIdle /\ resp.reply = "done"

C19_SixMessages ==
    /\ [](resp.status \in {0, 200})
    /\ \A h \in Handlers : (pc[h] # "idle") ~> (pc[h] = "idle")
    /\ [](Completed => calls >= 6)
    /\ [](SecondAccepted => [](JustCompleted => calls = 6))
    /\ <>(Completed \/ resp.reply = "reprompt")

C19_Witness ==
    /\ JustCompleted
    /\ Completed
    /\ calls = 6
    /\ Len(appointment) = 1

====
